---- MODULE Spec2Model ----
(***************************************************************************)
(* Swept collision resolution of gridbugs/platform-game-experiment.        *)
(*                                                                         *)
(* f32 values are modelled as exact rationals <<n, d>> (d > 0, lowest      *)
(* terms).  The inputs drawn below are small integers (and a few simple    *)
(* fractions), for which the f32 sums, differences, products and the       *)
(* comparisons made by the code are exact.                                 *)
(***************************************************************************)
EXTENDS Integers, Sequences, FiniteSets, TLC

VARIABLES
    \* GameState (game.rs 117-123) and the frame of top_left_after_movement
    statics,          \* static_aabb_quad_tree: the set of SpatialInfo entries
    shape,            \* common.shape of the moving entity
    common_top_left,  \* common.top_left of the moving entity
    pc,               \* "idle" | "loop" | "done" | "panic"
    top_left,         \* local top_left of top_left_after_movement
    movement,         \* local (mutable) movement of top_left_after_movement
    iter,             \* loop counter of 0..MAX_ITERATIONS
    movement0,        \* the movement argument of the current call
    sweeps,           \* history: one record per entity_movement_step call
    path,             \* history: positions the call moved through
    stopped,          \* history: the call returned from inside the loop body
    ticks,            \* how many calls have been made
    common,           \* common: the EntityCommon of each static solid, by id
    entity_id,        \* SpatialInfo.entity_id of each entry of the quad tree
    entity_id_allocator,   \* EntityIdAllocator.next
    player_id,        \* player_id: Option<EntityId>
    velocity,         \* velocity: the velocity of each moving entity, by id
    reset_from,       \* history: the GameState the last init_demo was called on
    \* one call of the swept collision test (shape.rs)
    cpc,              \* "ready" | "returned" | "panicked" | "off"
    cMover, cPos, cStat, cStatPos, cMove,   \* the arguments
    cOutcomes,        \* what for_each_movement_intersection passed to f
    cResult,          \* the Option<CollisionInfo> returned
    \* one call of Aabb::union (aabb.rs)
    apc,              \* "ready" | "returned" | "tested" | "off"
    aA, aB, aU,
    aInter,           \* <<a.is_intersecting(&b), b.is_intersecting(&a)>>
    \* one call of LineSegment::intersection each way (line_segment.rs)
    lpc,              \* "ready" | "returned" | "off"
    lSelf, lOther,    \* the two segments
    lResult,          \* self.intersection(&other)
    lReverse,         \* other.intersection(&self)
    \* one call of AxisAlignedRect::for_each_vertex_facing (shape.rs)
    fpc,              \* "ready" | "returned" | "off"
    fRect, fDirection,
    fVertices,        \* the vertices passed to f, in order
    \* one call of vertex_edge (collision.rs)
    vpc,              \* "ready" | "returned" | "aborted" | "off"
    vVertex, vMovement, vEdge,
    vResult           \* the Option<Vector2<N>> returned

resolveVars == <<statics, shape, common_top_left, pc, top_left, movement, iter,
                 movement0, sweeps, path, stopped, ticks,
                 common, entity_id, entity_id_allocator,
                 player_id, velocity, reset_from>>
collideVars == <<cpc, cMover, cPos, cStat, cStatPos, cMove, cOutcomes, cResult>>
aabbVars == <<apc, aA, aB, aU, aInter>>
lineVars == <<lpc, lSelf, lOther, lResult, lReverse>>
facingVars == <<fpc, fRect, fDirection, fVertices>>
vertexEdgeVars == <<vpc, vVertex, vMovement, vEdge, vResult>>
vars == <<resolveVars, collideVars, aabbVars, lineVars, facingVars, vertexEdgeVars>>

----------------------------------------------------------------------------
(* f32 arithmetic, exact *)

Abs(i) == IF i < 0 THEN -i ELSE i

RECURSIVE GCD(_, _)
GCD(a, b) == IF b = 0 THEN a ELSE GCD(b, a % b)

Norm(n, d) ==
    LET g == GCD(Abs(n), Abs(d))
        s == IF d < 0 THEN -1 ELSE 1
    IN  <<(s * n) \div g, (s * d) \div g>>

R(i) == <<i, 1>>
Zero == R(0)
One == R(1)

\* (common factors are cancelled before multiplying, to keep the integers small)
RAdd(a, b) ==
    LET g == GCD(a[2], b[2])
    IN  Norm(a[1] * (b[2] \div g) + b[1] * (a[2] \div g), (a[2] \div g) * b[2])
RNeg(a) == <<-a[1], a[2]>>
RSub(a, b) == RAdd(a, RNeg(b))
RMul(a, b) ==
    LET g1 == GCD(Abs(a[1]), b[2])
        g2 == GCD(Abs(b[1]), a[2])
    IN  Norm((a[1] \div g1) * (b[1] \div g2), (a[2] \div g2) * (b[2] \div g1))
RDiv(a, b) == RMul(a, Norm(b[2], b[1]))
RLt(a, b) ==
    LET g == GCD(a[2], b[2])
    IN  a[1] * (b[2] \div g) < b[1] * (a[2] \div g)
RLe(a, b) ==
    LET g == GCD(a[2], b[2])
    IN  a[1] * (b[2] \div g) <= b[1] * (a[2] \div g)
RGt(a, b) == RLt(b, a)
RGe(a, b) == RLe(b, a)
RAbs(a) == <<Abs(a[1]), a[2]>>
RMin(a, b) == IF RLt(b, a) THEN b ELSE a
RMax(a, b) == IF RLt(a, b) THEN b ELSE a

(* cgmath Vector2<f32> *)
V(x, y) == <<R(x), R(y)>>
VZero == V(0, 0)
VAdd(v, w) == <<RAdd(v[1], w[1]), RAdd(v[2], w[2])>>
VSub(v, w) == <<RSub(v[1], w[1]), RSub(v[2], w[2])>>
VNeg(v) == <<RNeg(v[1]), RNeg(v[2])>>
VScale(v, k) == <<RMul(v[1], k), RMul(v[2], k)>>
Dot(v, w) == RAdd(RMul(v[1], w[1]), RMul(v[2], w[2]))
vector2_cross_product(v, w) == RSub(RMul(v[1], w[2]), RMul(v[2], w[1]))

\* remaining.project_on(edge.normalize()): other * (self . other / |other|^2)
\* with other = edge / |edge|, which is edge * (self . edge / edge . edge).
ProjectOnNormalized(v, edge) == VScale(edge, RDiv(Dot(v, edge), Dot(edge, edge)))

----------------------------------------------------------------------------
(* aabb.rs *)

Aabb(tl, size) == [top_left_coord |-> tl, size |-> size]

bottom_right_coord(a) == VAdd(a.top_left_coord, a.size)

AabbUnionMinBottomRight(a, b) ==
    LET tl == <<RMin(a.top_left_coord[1], b.top_left_coord[1]),
                RMin(a.top_left_coord[2], b.top_left_coord[2])>>
        abr == bottom_right_coord(a)
        bbr == bottom_right_coord(b)
        br == <<RMin(abr[1], bbr[1]), RMax(abr[2], bbr[2])>>
    IN  Aabb(tl, VSub(br, tl))

AabbUnion(a, b) ==
    LET tl == <<RMin(a.top_left_coord[1], b.top_left_coord[1]),
                RMin(a.top_left_coord[2], b.top_left_coord[2])>>
        abr == bottom_right_coord(a)
        bbr == bottom_right_coord(b)
        br == <<RMax(abr[1], bbr[1]), RMax(abr[2], bbr[2])>>
    IN  Aabb(tl, VSub(br, tl))

IsIntersectingTouching(a, b) ==
    /\ RGe(RAdd(a.top_left_coord[1], a.size[1]), b.top_left_coord[1])
    /\ RGt(RAdd(b.top_left_coord[1], b.size[1]), a.top_left_coord[1])
    /\ RGt(RAdd(a.top_left_coord[2], a.size[2]), b.top_left_coord[2])
    /\ RGt(RAdd(b.top_left_coord[2], b.size[2]), a.top_left_coord[2])

is_intersecting(a, b) ==
    /\ RGt(RAdd(a.top_left_coord[1], a.size[1]), b.top_left_coord[1])
    /\ RGt(RAdd(b.top_left_coord[1], b.size[1]), a.top_left_coord[1])
    /\ RGt(RAdd(a.top_left_coord[2], a.size[2]), b.top_left_coord[2])
    /\ RGt(RAdd(b.top_left_coord[2], b.size[2]), a.top_left_coord[2])

----------------------------------------------------------------------------
(* line_segment.rs *)

EPSILON == <<1, 1000>>

LineSegment(start, end) == [start |-> start, end |-> end]
add_vector(seg, v) == LineSegment(VAdd(seg.start, v), VAdd(seg.end, v))
vector(seg) == VSub(seg.end, seg.start)

\* IntersectionResult: Ok(IntersectionWithVectorMultiplier(t)) | Ok(Slide(s)) | Err(n)
Intersection(t) == [kind |-> "Intersection", tag |-> "", t |-> t]
Slide(s) == [kind |-> "Slide", tag |-> s, t |-> Zero]
NoIntersection(n) == [kind |-> "NoIntersection", tag |-> n, t |-> Zero]

TOutOfRangeNoUpper(t) == RLt(t, RNeg(EPSILON))

\* the test on t of line 105
TOutOfRange(t) == RLt(t, RNeg(EPSILON)) \/ RGt(t, RAdd(One, EPSILON))

UNearEndpointStartOnly(u) == RLt(RAbs(u), EPSILON)

\* the test on u of line 109
UNearEndpoint(u) == RLt(RAbs(u), EPSILON) \/ RLt(RAbs(RSub(u, One)), EPSILON)

UOutOfRangeNever(u) == FALSE

\* the test on u of line 112
UOutOfRange(u) == RLt(u, RNeg(EPSILON)) \/ RGt(u, RAdd(One, EPSILON))

ColinearOverlapsStrict(t0, t1, r_len2) ==
    IF RLt(t0, t1)
    THEN RLt(t0, r_len2) /\ RGt(t1, Zero)
    ELSE RLt(t1, r_len2) /\ RGt(t0, Zero)

ColinearOverlapsForwardOnly(t0, t1, r_len2) == RLe(t0, r_len2) /\ RGe(t1, Zero)

\* lines 82-98: does the range t0..t1 overlap 0..r_len2
ColinearOverlaps(t0, t1, r_len2) ==
    IF RLt(t0, t1)
    THEN RLe(t0, r_len2) /\ RGe(t1, Zero)
    ELSE RLe(t1, r_len2) /\ RGe(t0, Zero)

intersection(self, other) ==
    LET p == self.start
        q == other.start
        r == vector(self)
        s == vector(other)
        rxs == vector2_cross_product(r, s)
        p_to_q == VSub(q, p)
    IN  IF RLt(RAbs(rxs), EPSILON)
        THEN IF RLt(RAbs(vector2_cross_product(p_to_q, r)), EPSILON)
             THEN LET r_len2 == Dot(r, r)
                      t0 == Dot(p_to_q, r)
                      t1 == Dot(VAdd(p_to_q, s), r)
                  IN  IF ColinearOverlaps(t0, t1, r_len2)
                      THEN Slide("Colinear")
                      ELSE NoIntersection("ColinearNonOverlapping")
             ELSE NoIntersection("ParallelNonColinear")
        ELSE LET t == RDiv(vector2_cross_product(p_to_q, s), rxs)
                 u == RDiv(vector2_cross_product(p_to_q, r), rxs)
             IN  IF TOutOfRange(t)
                 THEN NoIntersection("NonParallelNonIntersecting")
                 ELSE IF UNearEndpoint(u)
                 THEN Slide("Vertex")
                 ELSE IF UOutOfRange(u)
                 THEN NoIntersection("NonParallelNonIntersecting")
                 ELSE Intersection(t)

----------------------------------------------------------------------------
(* shape.rs: the Shape enum, AxisAlignedRect and the two Collide impls *)

AxisAlignedRect(dimensions) ==
    [kind |-> "AxisAlignedRect", dimensions |-> dimensions,
     start |-> VZero, end |-> VZero]
LineSegmentShape(start, end) ==
    [kind |-> "LineSegment", dimensions |-> VZero, start |-> start, end |-> end]

rect_top_left(rect) == VZero
rect_top_right(rect) == <<rect.dimensions[1], Zero>>
rect_bottom_left(rect) == <<Zero, rect.dimensions[2]>>
rect_bottom_right(rect) == rect.dimensions
rect_top(rect) == LineSegment(rect_top_left(rect), rect_top_right(rect))
rect_right(rect) == LineSegment(rect_top_right(rect), rect_bottom_right(rect))
rect_bottom(rect) == LineSegment(rect_bottom_right(rect), rect_bottom_left(rect))
rect_left(rect) == LineSegment(rect_bottom_left(rect), rect_top_left(rect))

\* Collide::aabb of either impl
ShapeAabb(sh, tl) ==
    IF sh.kind = "AxisAlignedRect"
    THEN Aabb(tl, sh.dimensions)
    ELSE LET start == VAdd(sh.start, tl)
             end == VAdd(sh.end, tl)
             mn == <<RMin(start[1], end[1]), RMin(start[2], end[2])>>
             mx == <<RMax(start[1], end[1]), RMax(start[2], end[2])>>
         IN  Aabb(mn, VSub(mx, mn))

for_each_vertex_facing_all(sh, direction) ==
    <<rect_top_left(sh), rect_top_right(sh), rect_bottom_left(sh), rect_bottom_right(sh)>>

\* Collide::for_each_vertex_facing: the vertices in the order f receives them
for_each_vertex_facing(sh, direction) ==
    IF sh.kind = "LineSegment" THEN <<sh.start, sh.end>>
    ELSE IF RGt(direction[2], Zero)
    THEN <<rect_bottom_left(sh), rect_bottom_right(sh)>> \o
         (IF RGt(direction[1], Zero) THEN <<rect_top_right(sh)>>
          ELSE IF RLt(direction[1], Zero) THEN <<rect_top_left(sh)>>
          ELSE <<>>)
    ELSE IF RLt(direction[2], Zero)
    THEN <<rect_top_left(sh), rect_top_right(sh)>> \o
         (IF RGt(direction[1], Zero) THEN <<rect_bottom_right(sh)>>
          ELSE IF RLt(direction[1], Zero) THEN <<rect_bottom_left(sh)>>
          ELSE <<>>)
    ELSE IF RGt(direction[1], Zero)
    THEN <<rect_top_right(sh), rect_bottom_right(sh)>>
    ELSE IF RLt(direction[1], Zero)
    THEN <<rect_top_left(sh), rect_bottom_left(sh)>>
    ELSE <<>>

\* Collide::for_each_edge_facing: the edges in the order f receives them
for_each_edge_facing(sh, direction) ==
    IF sh.kind = "LineSegment" THEN <<LineSegment(sh.start, sh.end)>>
    ELSE (IF RGt(direction[2], Zero) THEN <<rect_bottom(sh)>>
          ELSE IF RLt(direction[2], Zero) THEN <<rect_top(sh)>>
          ELSE <<>>) \o
         (IF RGt(direction[1], Zero) THEN <<rect_right(sh)>>
          ELSE IF RLt(direction[1], Zero) THEN <<rect_left(sh)>>
          ELSE <<>>)

\* Every probe-versus-edge result of one direction, in enumeration order
\* (vertices outer, edges inner), Err results included.
SingleDirectionResults(sh, position, other_shape, other_position, mv, reverse_mv) ==
    LET vs == for_each_vertex_facing(sh, mv)
        es == for_each_edge_facing(other_shape, reverse_mv)
        ne == Len(es)
    IN  [k \in 1..(Len(vs) * ne) |->
            LET abs_vertex == VAdd(vs[((k - 1) \div ne) + 1], position)
                vertex_movement == LineSegment(abs_vertex, VAdd(abs_vertex, mv))
                abs_edge == add_vector(es[((k - 1) % ne) + 1], other_position)
            IN  [outcome |-> intersection(vertex_movement, abs_edge),
                 edge |-> abs_edge]]

IsOk(res) == res.outcome.kind # "NoIntersection"

\* for_each_single_direction_intersection: what it passes to f (Ok results only)
for_each_single_direction_intersection(sh, position, other_shape, other_position, mv, reverse_mv) ==
    SelectSeq(SingleDirectionResults(sh, position, other_shape, other_position,
                                     mv, reverse_mv), IsOk)

\* Every probe-versus-edge result of both directions, Err results included.
AllResults(sh, position, stationary_shape, stationary_position, mv) ==
    SingleDirectionResults(sh, position, stationary_shape, stationary_position,
                           mv, VNeg(mv)) \o
    SingleDirectionResults(stationary_shape, stationary_position, sh, position,
                           VNeg(mv), mv)

for_each_movement_intersection_forward_only(sh, position, stationary_shape, stationary_position, mv) ==
    for_each_single_direction_intersection(sh, position, stationary_shape,
                                           stationary_position, mv, VNeg(mv))

\* Collide::for_each_movement_intersection: what it passes to f, in order
for_each_movement_intersection(sh, position, stationary_shape, stationary_position, mv) ==
    for_each_single_direction_intersection(sh, position, stationary_shape,
                                           stationary_position, mv, VNeg(mv)) \o
    for_each_single_direction_intersection(stationary_shape, stationary_position,
                                           sh, position, VNeg(mv), mv)

(* best.rs (BestMap) *)
NoSegment == LineSegment(VZero, VZero)
BestMapNew == [some |-> FALSE, key |-> Zero, value |-> NoSegment]
insert_le(best, key, value) ==
    IF ~best.some \/ RLe(key, best.key)
    THEN [some |-> TRUE, key |-> key, value |-> value] ELSE best
insert_lt(best, key, value) ==
    IF ~best.some \/ RLt(key, best.key)
    THEN [some |-> TRUE, key |-> key, value |-> value] ELSE best

\* Option<CollisionInfo>
NoCollision ==
    [some |-> FALSE, movement_vector_ratio |-> Zero, colliding_with |-> NoSegment]
SomeCollision(ratio, edge) ==
    [some |-> TRUE, movement_vector_ratio |-> ratio, colliding_with |-> edge]

CollisionClosureSlideBlocks(best, res) ==
    IF res.outcome.kind = "Intersection"
    THEN insert_le(best, res.outcome.t, res.edge)
    ELSE insert_le(best, Zero, res.edge)

\* the closure of movement_collision_test (lines 90-95)
CollisionClosure(best, res) ==
    IF res.outcome.kind = "Intersection"
    THEN insert_le(best, res.outcome.t, res.edge)
    ELSE best

RECURSIVE FoldCollisions(_, _)
FoldCollisions(best, passed) ==
    IF passed = <<>> THEN best
    ELSE FoldCollisions(CollisionClosure(best, Head(passed)), Tail(passed))

\* Collide::movement_collision_test
movement_collision_test(sh, position, stationary_shape, stationary_position, mv) ==
    LET best == FoldCollisions(BestMapNew,
                    for_each_movement_intersection(sh, position, stationary_shape,
                                                   stationary_position, mv))
    IN  IF best.some THEN SomeCollision(best.key, best.value) ELSE NoCollision

\* Shape::movement_collision_test: panics for a LineSegment mover
ShapeMovementCollisionTest(sh, position, stationary, stationary_position, mv) ==
    IF sh.kind = "AxisAlignedRect"
    THEN [panicked |-> FALSE,
          info |-> movement_collision_test(sh, position, stationary,
                                           stationary_position, mv)]
    ELSE [panicked |-> TRUE, info |-> NoCollision]

----------------------------------------------------------------------------
(* game.rs: entity_movement_step and top_left_after_movement *)

GAME_EPSILON == <<1, 10000>>
MaxIterationsOffByOne == 16 + 1

MAX_ITERATIONS == 16

SpatialInfo(position, sh) == [position |-> position, shape |-> sh]

\* EntityCommon and the two colours of a static solid
EntityCommon(tl, sh, colour) == [top_left |-> tl, shape |-> sh, colour |-> colour]
Yellow == <<1, 1, 0>>
Cyan == <<0, 1, 1>>

\* LooseQuadTree::for_each_intersection: the entries whose AABB intersects the
\* query; the order in which they are visited is not specified.
QuadTreeIntersections(tree, query) ==
    {info \in tree : is_intersecting(ShapeAabb(info.shape, info.position), query)}

\* the closure given to for_each_intersection (lines 147-157)
StepClosure(collision, tl, sh, mv, info) ==
    LET r == ShapeMovementCollisionTest(sh, tl, info.shape, info.position, mv)
    IN  IF r.info.some
        THEN insert_lt(collision, r.info.movement_vector_ratio, r.info.colliding_with)
        ELSE collision

\* the BestMap after visiting the remaining candidates in any order
RECURSIVE StepBests(_, _, _, _, _)
StepBests(collision, tl, sh, mv, remaining) ==
    IF remaining = {} THEN {collision}
    ELSE UNION {StepBests(StepClosure(collision, tl, sh, mv, info), tl, sh, mv,
                          remaining \ {info}) : info \in remaining}

MoveWithoutCollision == [kind |-> "MoveWithoutCollision", info |-> NoCollision]
MoveWithCollision(info) == [kind |-> "MoveWithCollision", info |-> info]
StepPanic == [kind |-> "Panic", info |-> NoCollision]

\* entity_movement_step: the results it can return (one per visiting order)
entity_movement_step(tl, sh, mv, tree) ==
    LET new_top_left == VAdd(tl, mv)
        movement_aabb == AabbUnion(ShapeAabb(sh, tl), ShapeAabb(sh, new_top_left))
        candidates == QuadTreeIntersections(tree, movement_aabb)
    IN  IF \E info \in candidates :
               ShapeMovementCollisionTest(sh, tl, info.shape, info.position, mv).panicked
        THEN {StepPanic}
        ELSE {IF best.some
              THEN MoveWithCollision(SomeCollision(best.key, best.value))
              ELSE MoveWithoutCollision :
              best \in StepBests(BestMapNew, tl, sh, mv, candidates)}

\* line 177: movement.dot(movement) < EPSILON
IsNegligibleNever(mv) == FALSE

IsNegligible(mv) == RLt(Dot(mv, mv), GAME_EPSILON)

\* line 183: the position returned when the sweep is free
FreePositionStays(tl, mv) == tl

FreePosition(tl, mv) == VAdd(tl, mv)

\* line 188: top_left + movement * movement_vector_ratio
AdvanceWhole(tl, mv, ratio) == VAdd(tl, mv)

Advance(tl, mv, ratio) == VAdd(tl, VScale(mv, ratio))

RedirectUnprojected(mv, remaining_ratio, colliding_with) == VScale(mv, remaining_ratio)

\* lines 193-195: the movement of the next sweep
Redirect(mv, remaining_ratio, colliding_with) ==
    ProjectOnNormalized(VScale(mv, remaining_ratio), vector(colliding_with))

SweepRecord(mv, step) ==
    [movement |-> mv, collided |-> step.kind = "MoveWithCollision",
     ratio |-> step.info.movement_vector_ratio, edge |-> step.info.colliding_with]

MaxTicks == 2
MoveRange == 2

\* the velocities update() passes: a small grid, one sub-epsilon vector and
\* one at a shallow angle to the horizontal
Movements ==
    {V(x, y) : x \in -1..MoveRange, y \in -1..MoveRange}
    \cup {<<<<1, 200>>, Zero>>, V(40, 1)}

HighlightAndMove(c) == [c EXCEPT !.colour = Cyan, !.top_left = VAdd(c.top_left, V(1, 0))]

\* player_id: Option<EntityId> (None, Some(id))
NoPlayer == [some |-> FALSE, id |-> 0]
SomePlayer(id) == [some |-> TRUE, id |-> id]

\* GameState::new (lines 206-214)
GameStateNew ==
    [player_id |-> NoPlayer,
     entity_id_allocator |-> 0,
     common |-> <<>>,
     velocity |-> <<>>,
     static_aabb_quad_tree |-> {}]

\* no init_demo call has been made since the last update
NoReset == [some |-> FALSE, gs |-> GameStateNew]

\* line 285: common.colour = [0., 1., 1.]
Highlight(c) == [c EXCEPT !.colour = Cyan]

\* lines 279-289: every solid whose AABB intersects the player's is recoloured
HighlightIntersecting(cm, ids, tree, player_aabb) ==
    LET hit == {ids[info] : info \in QuadTreeIntersections(tree, player_aabb)}
    IN  [id \in DOMAIN cm |-> IF id \in hit THEN Highlight(cm[id]) ELSE cm[id]]

\* GameState::update up to its call of top_left_after_movement(common,
\* velocity, tree), and lines 174-180 of that call, up to the first iteration
\* of the loop
Call(mv) ==
    /\ pc = "idle"
    /\ player_id.some
    /\ ticks < MaxTicks
    /\ ticks' = ticks + 1
    /\ movement0' = mv
    /\ movement' = mv
    /\ top_left' = common_top_left
    /\ iter' = 0
    /\ sweeps' = <<>>
    /\ path' = <<common_top_left>>
    /\ stopped' = FALSE
    /\ pc' = IF IsNegligible(mv) THEN "done" ELSE "loop"
    /\ common' = HighlightIntersecting(common, entity_id, statics,
                                       ShapeAabb(shape, common_top_left))
    /\ velocity' = [velocity EXCEPT ![player_id.id] = mv]
    /\ reset_from' = NoReset
    /\ UNCHANGED <<statics, shape, common_top_left, entity_id, entity_id_allocator,
                   player_id>>

\* one iteration of the for loop of lines 181-201 (and the return of line 202
\* when it was the last)
Sweep ==
    /\ pc = "loop"
    /\ iter < MAX_ITERATIONS
    /\ \E step \in entity_movement_step(top_left, shape, movement, statics) :
        /\ sweeps' = Append(sweeps, SweepRecord(movement, step))
        /\ IF step.kind = "Panic"
           THEN /\ pc' = "panic"
                /\ UNCHANGED <<top_left, movement, iter, path, stopped>>
           ELSE IF step.kind = "MoveWithoutCollision"
           THEN /\ top_left' = FreePosition(top_left, movement)
                /\ path' = Append(path, top_left')
                /\ pc' = "done"
                /\ UNCHANGED <<movement, iter, stopped>>
           ELSE LET ratio == step.info.movement_vector_ratio
                    remaining_ratio == RSub(One, ratio)
                    next == Redirect(movement, remaining_ratio,
                                     step.info.colliding_with)
                IN  /\ top_left' = Advance(top_left, movement, ratio)
                    /\ path' = Append(path, top_left')
                    /\ IF RLt(remaining_ratio, GAME_EPSILON)
                       THEN /\ pc' = "done"
                            /\ stopped' = TRUE
                            /\ UNCHANGED <<movement, iter>>
                       ELSE /\ movement' = next
                            /\ IF RLt(Dot(next, next), GAME_EPSILON)
                               THEN /\ pc' = "done"
                                    /\ stopped' = TRUE
                                    /\ UNCHANGED iter
                               ELSE /\ iter' = iter + 1
                                    /\ stopped' = FALSE
                                    /\ pc' = IF iter + 1 = MAX_ITERATIONS
                                             THEN "done" ELSE "loop"
    /\ UNCHANGED <<statics, shape, common_top_left, movement0, ticks,
                   common, entity_id, entity_id_allocator,
                   player_id, velocity, reset_from>>

\* line 300 of update(): common.top_left = new_top_left; the frame of the call
\* is gone
Return ==
    /\ pc = "done"
    /\ common_top_left' = top_left
    /\ pc' = "idle"
    /\ top_left' = VZero
    /\ movement' = VZero
    /\ movement0' = VZero
    /\ iter' = 0
    /\ sweeps' = <<>>
    /\ path' = <<>>
    /\ stopped' = FALSE
    /\ UNCHANGED <<statics, shape, ticks, common, entity_id, entity_id_allocator,
                   player_id, velocity, reset_from>>

----------------------------------------------------------------------------
(* The scenes and entities the calls are made on *)

RectAt(x, y, w, h) == SpatialInfo(V(x, y), AxisAlignedRect(V(w, h)))
SegAt(x, y, x1, y1, x2, y2) == SpatialInfo(V(x, y), LineSegmentShape(V(x1, y1), V(x2, y2)))

Scenario(sh, start, tree) == [shape |-> sh, start |-> start, statics |-> tree]

\* a block whose corner lies diagonally off the mover's corner, above a floor
CornerScenarios ==
    {Scenario(AxisAlignedRect(V(2, 2)), V(0, 0), {RectAt(3, 3, 2, 2), RectAt(-2, 6, 8, 1)})}

\* the player of init_demo (32 x 64) over a single platform, as wide as the
\* player or wider, at a gap of 0..MoveRange
LandingScenarios ==
    {Scenario(AxisAlignedRect(V(32, 64)), V(0, -gap), {RectAt(pl[1], 64, pl[2], 20)}) :
        gap \in 0..MoveRange, pl \in {<<0, 32>>, <<-4, 40>>}}

\* a mover resting on a horizontal segment with a sloped segment through its
\* top-right corner
WedgeScenarios ==
    {Scenario(AxisAlignedRect(V(2, 2)), V(0, 0),
              {SegAt(-1, 2, 0, 0, 6, 0), SegAt(0, -2, 0, 0, 4, 4)})}

\* an entity whose shape is a segment, its AABB over a block's
SegmentMoverScenarios ==
    {Scenario(LineSegmentShape(V(0, 0), V(2, 2)), V(0, 0), {RectAt(1, 1, 2, 2)})}

\* a mover whose bottom edge is 1/1000 below a horizontal segment
GrazingScenarios ==
    {Scenario(AxisAlignedRect(V(2, 2)), V(0, 0),
              {SpatialInfo(<<R(-1), <<1999, 1000>>>>,
                           LineSegmentShape(V(0, 0), V(6, 0)))})}

Scenarios ==
    CornerScenarios \cup LandingScenarios \cup WedgeScenarios
    \cup SegmentMoverScenarios \cup GrazingScenarios

CollideOff ==
    /\ cpc = "off"
    /\ cMover = AxisAlignedRect(VZero)
    /\ cPos = VZero
    /\ cStat = AxisAlignedRect(VZero)
    /\ cStatPos = VZero
    /\ cMove = VZero
    /\ cOutcomes = <<>>
    /\ cResult = [panicked |-> FALSE, info |-> NoCollision]

AabbOff ==
    /\ apc = "off"
    /\ aA = Aabb(VZero, VZero)
    /\ aB = Aabb(VZero, VZero)
    /\ aU = Aabb(VZero, VZero)
    /\ aInter = <<FALSE, FALSE>>

LineOff ==
    /\ lpc = "off"
    /\ lSelf = NoSegment
    /\ lOther = NoSegment
    /\ lResult = NoIntersection("")
    /\ lReverse = NoIntersection("")

FacingOff ==
    /\ fpc = "off"
    /\ fRect = AxisAlignedRect(VZero)
    /\ fDirection = VZero
    /\ fVertices = <<>>

VertexEdgeOff ==
    /\ vpc = "off"
    /\ vVertex = <<0, 0>>
    /\ vMovement = <<0, 0>>
    /\ vEdge = [start |-> <<0, 0>>, end |-> <<0, 0>>]
    /\ vResult = [some |-> FALSE, value |-> <<0, 0>>]

ResolveFrameEmpty ==
    /\ top_left = VZero
    /\ movement = VZero
    /\ movement0 = VZero
    /\ iter = 0
    /\ sweeps = <<>>
    /\ path = <<>>
    /\ stopped = FALSE
    /\ ticks = 0

ResolveOff ==
    /\ pc = "off"
    /\ statics = {}
    /\ shape = AxisAlignedRect(VZero)
    /\ common_top_left = VZero
    /\ common = <<>>
    /\ entity_id = <<>>
    /\ entity_id_allocator = 0
    /\ player_id = NoPlayer
    /\ velocity = <<>>
    /\ reset_from = NoReset
    /\ ResolveFrameEmpty

\* add_common for the player (id 0), then add_static_solid for each solid
IdsOf(tree) ==
    CHOOSE f \in [tree -> 1..Cardinality(tree)] :
        \A a, b \in tree : a # b => f[a] # f[b]

Init ==
    /\ \E sc \in Scenarios :
        /\ statics = sc.statics
        /\ shape = sc.shape
        /\ common_top_left = sc.start
        /\ entity_id = IdsOf(sc.statics)
        /\ common = [id \in 1..Cardinality(sc.statics) |->
                        LET info == CHOOSE i \in sc.statics : IdsOf(sc.statics)[i] = id
                        IN  EntityCommon(info.position, info.shape, Yellow)]
        /\ entity_id_allocator = Cardinality(sc.statics) + 1
    /\ player_id = SomePlayer(0)
    /\ velocity = [id \in {0} |-> VZero]
    /\ reset_from = NoReset
    /\ pc = "idle"
    /\ ResolveFrameEmpty
    /\ CollideOff
    /\ AabbOff
    /\ LineOff
    /\ FacingOff
    /\ VertexEdgeOff

Next ==
    \/ \E mv \in Movements : Call(mv) /\ UNCHANGED <<collideVars, aabbVars, lineVars, facingVars, vertexEdgeVars>>
    \/ Sweep /\ UNCHANGED <<collideVars, aabbVars, lineVars, facingVars, vertexEdgeVars>>
    \/ Return /\ UNCHANGED <<collideVars, aabbVars, lineVars, facingVars, vertexEdgeVars>>

Spec == Init /\ [][Next]_vars

----------------------------------------------------------------------------
(* GameState: the demo scene, its reset, and the main loop (game.rs 87-96,
   205-301; main.rs 95-108) *)

\* EntityIdAllocator::allocate (lines 87-91): the id returned and the new next
allocate(next) == [id |-> next, next |-> next + 1]

ResetKeepsNext(next) == next

\* EntityIdAllocator::reset (lines 93-95)
reset(next) == 0

\* FnvHashMap::insert
MapInsert(m, k, v) == [i \in DOMAIN m \cup {k} |-> IF i = k THEN v ELSE m[i]]

\* FnvHashMap::clear
MapClear(m) == <<>>

\* LooseQuadTree::clear: empties the structure
LooseQuadTreeClear(tree) == {}

\* LooseQuadTree::insert(aabb, payload)
LooseQuadTreeInsert(tree, aabb, payload) ==
    tree \cup {[aabb |-> aabb, info |-> payload]}

\* SpatialInfo::new(entity_id, position, shape) (lines 98-115)
SpatialInfoNew(id, position, sh) ==
    [entity_id |-> id, position |-> position, shape |-> sh]

\* GameState::clear (lines 215-221)
clear(gs) ==
    [player_id |-> NoPlayer,
     entity_id_allocator |-> reset(gs.entity_id_allocator),
     common |-> MapClear(gs.common),
     velocity |-> MapClear(gs.velocity),
     static_aabb_quad_tree |-> LooseQuadTreeClear(gs.static_aabb_quad_tree)]

\* GameState::add_static_solid (lines 222-230): the new state and the id
add_static_solid(gs, c) ==
    LET a == allocate(gs.entity_id_allocator)
    IN  [gs |-> [gs EXCEPT
                    !.entity_id_allocator = a.next,
                    !.static_aabb_quad_tree =
                        LooseQuadTreeInsert(@, ShapeAabb(c.shape, c.top_left),
                                            SpatialInfoNew(a.id, c.top_left, c.shape)),
                    !.common = MapInsert(@, a.id, c)],
         id |-> a.id]

\* GameState::add_common (lines 231-235): the new state and the id
add_common(gs, c) ==
    LET a == allocate(gs.entity_id_allocator)
    IN  [gs |-> [gs EXCEPT !.entity_id_allocator = a.next,
                           !.common = MapInsert(@, a.id, c)],
         id |-> a.id]

Red == <<1, 0, 0>>
Green == <<0, 1, 0>>

\* the player of init_demo (lines 238-242)
DemoPlayer == EntityCommon(V(200, 50), AxisAlignedRect(V(32, 64)), Red)

\* the static solids of init_demo, in the order they are added (lines 245-274)
DemoSolids ==
    << EntityCommon(V(50, 200), AxisAlignedRect(V(400, 20)), Yellow),
       EntityCommon(V(150, 250), AxisAlignedRect(V(500, 20)), Yellow),
       EntityCommon(V(50, 450), AxisAlignedRect(V(100, 20)), Yellow),
       EntityCommon(V(50, 500), AxisAlignedRect(V(800, 20)), Yellow),
       EntityCommon(V(600, 100), AxisAlignedRect(V(20, 200)), Yellow),
       EntityCommon(V(20, 20), LineSegmentShape(V(0, 0), V(50, 100)), Green) >>

\* the add_static_solid calls of init_demo, one after the other
RECURSIVE AddStaticSolids(_, _)
AddStaticSolids(gs, solids) ==
    IF solids = <<>>
    THEN gs
    ELSE AddStaticSolids(add_static_solid(gs, Head(solids)).gs, Tail(solids))

\* GameState::init_demo (lines 236-275)
init_demo(gs) ==
    LET added == add_common(clear(gs), DemoPlayer)
        with_player == [added.gs EXCEPT
                           !.player_id = SomePlayer(added.id),
                           !.velocity = MapInsert(@, added.id, VZero)]
    IN  AddStaticSolids(with_player, DemoSolids)

\* The GameState the variables hold: the player's EntityCommon is kept in
\* shape and common_top_left, the solids' in common, the quad tree's entries in
\* statics and their ids in entity_id.
GameStateOf ==
    [player_id |-> player_id,
     entity_id_allocator |-> entity_id_allocator,
     common |->
        IF player_id.some
        THEN [id \in DOMAIN common \cup {player_id.id} |->
                 IF id = player_id.id
                 THEN EntityCommon(common_top_left, shape, Red)
                 ELSE common[id]]
        ELSE common,
     velocity |-> velocity,
     static_aabb_quad_tree |->
        {[aabb |-> ShapeAabb(info.shape, info.position),
          info |-> SpatialInfoNew(entity_id[info], info.position, info.shape)] :
            info \in statics}]

\* the parts of a GameState as the variables hold them
HasPlayer(gs) == gs.player_id.some /\ gs.player_id.id \in DOMAIN gs.common
PlayerCommonOf(gs) ==
    IF HasPlayer(gs)
    THEN gs.common[gs.player_id.id]
    ELSE EntityCommon(VZero, AxisAlignedRect(VZero), Red)
SolidsOf(gs) ==
    [id \in DOMAIN gs.common \ (IF gs.player_id.some THEN {gs.player_id.id} ELSE {}) |->
        gs.common[id]]
TreeOf(gs) ==
    {SpatialInfo(e.info.position, e.info.shape) : e \in gs.static_aabb_quad_tree}
TreeIdsOf(gs) ==
    [i \in TreeOf(gs) |->
        (CHOOSE e \in gs.static_aabb_quad_tree :
            SpatialInfo(e.info.position, e.info.shape) = i).info.entity_id]

\* main.rs 102-106: Some(ExternalEvent::Reset) => game_state.init_demo()
InitDemo ==
    /\ pc = "idle"
    /\ LET gs == init_demo(GameStateOf)
       IN  /\ player_id' = gs.player_id
           /\ entity_id_allocator' = gs.entity_id_allocator
           /\ velocity' = gs.velocity
           /\ shape' = PlayerCommonOf(gs).shape
           /\ common_top_left' = PlayerCommonOf(gs).top_left
           /\ common' = SolidsOf(gs)
           /\ statics' = TreeOf(gs)
           /\ entity_id' = TreeIdsOf(gs)
    /\ reset_from' = [some |-> TRUE, gs |-> GameStateOf]
    /\ UNCHANGED <<pc, top_left, movement, iter, movement0, sweeps, path,
                   stopped, ticks>>

\* line 277 of update(): self.player_id.expect("No player id")
UpdateWithoutPlayer ==
    /\ pc = "idle"
    /\ ~player_id.some
    /\ ticks < MaxTicks
    /\ ticks' = ticks + 1
    /\ pc' = "panic"
    /\ reset_from' = NoReset
    /\ UNCHANGED <<statics, shape, common_top_left, top_left, movement, iter,
                   movement0, sweeps, path, stopped, common, entity_id,
                   entity_id_allocator, player_id, velocity>>

\* update_player_velocity (lines 125-131)
MULTIPLIER == 4

\* InputModel::movement (lines 50-57) for the key states whose raw vector is
\* not normalised, scaled by update_player_velocity
DemoMovements ==
    {VScale(V(raw[1], raw[2]), R(MULTIPLIER)) :
        raw \in {r \in (-1..1) \X (-1..1) : r[1] * r[1] + r[2] * r[2] <= 1}}

\* the demo scene after the player has walked left from (200, 50) for 33
\* updates, its way being free: it stands inside the segment's AABB
AfterWalk ==
    LET gs == init_demo(GameStateNew)
    IN  [gs EXCEPT !.common = MapInsert(@, 0, EntityCommon(V(68, 50), DemoPlayer.shape, Red)),
                   !.velocity = MapInsert(@, 0, V(-4, 0))]

\* GameState::new(), and a state later in the run
DemoStarts == {GameStateNew, AfterWalk}

InitGame ==
    /\ \E gs \in DemoStarts :
        /\ player_id = gs.player_id
        /\ entity_id_allocator = gs.entity_id_allocator
        /\ velocity = gs.velocity
        /\ shape = PlayerCommonOf(gs).shape
        /\ common_top_left = PlayerCommonOf(gs).top_left
        /\ common = SolidsOf(gs)
        /\ statics = TreeOf(gs)
        /\ entity_id = TreeIdsOf(gs)
    /\ reset_from = NoReset
    /\ pc = "idle"
    /\ ResolveFrameEmpty
    /\ CollideOff
    /\ AabbOff
    /\ LineOff
    /\ FacingOff
    /\ VertexEdgeOff

NextGame ==
    \/ InitDemo /\ UNCHANGED <<collideVars, aabbVars, lineVars, facingVars, vertexEdgeVars>>
    \/ UpdateWithoutPlayer /\ UNCHANGED <<collideVars, aabbVars, lineVars, facingVars, vertexEdgeVars>>
    \/ \E mv \in DemoMovements : Call(mv) /\ UNCHANGED <<collideVars, aabbVars, lineVars, facingVars, vertexEdgeVars>>
    \/ Sweep /\ UNCHANGED <<collideVars, aabbVars, lineVars, facingVars, vertexEdgeVars>>
    \/ Return /\ UNCHANGED <<collideVars, aabbVars, lineVars, facingVars, vertexEdgeVars>>

SpecGame == InitGame /\ [][NextGame]_vars

----------------------------------------------------------------------------
(* One call of the swept collision test on drawn arguments *)

CollideRange == 2

CollideMovers ==
    {AxisAlignedRect(V(2, 2)), LineSegmentShape(V(0, 0), V(2, 1))}

CollideStationaries ==
    {AxisAlignedRect(V(2, 2)), AxisAlignedRect(V(1, 1)),
     LineSegmentShape(V(0, -1), V(0, 3)), LineSegmentShape(V(0, 0), V(2, 2))}

\* around the mover, and one far away on its row
CollidePositions ==
    {V(x, y) : x \in -1..(CollideRange + 2), y \in -1..(CollideRange + 2)}
    \cup {V(2003, 0)}

\* the grid of movements, and one long movement along the row
CollideMovements == Movements \cup {V(2000, 0)}

InitCollide ==
    /\ cpc = "ready"
    /\ cMover \in CollideMovers
    /\ cPos = VZero
    /\ cStat \in CollideStationaries
    /\ cStatPos \in CollidePositions
    /\ cMove \in CollideMovements
    /\ cOutcomes = <<>>
    /\ cResult = [panicked |-> FALSE, info |-> NoCollision]
    /\ ResolveOff
    /\ AabbOff
    /\ LineOff
    /\ FacingOff
    /\ VertexEdgeOff

\* Collide::movement_collision_test(&mover, position, &stationary, ...)
CollideTest ==
    /\ cpc = "ready"
    /\ cOutcomes' = AllResults(cMover, cPos, cStat, cStatPos, cMove)
    /\ cResult' = [panicked |-> FALSE,
                   info |-> movement_collision_test(cMover, cPos, cStat, cStatPos, cMove)]
    /\ cpc' = "collide_returned"
    /\ UNCHANGED <<cMover, cPos, cStat, cStatPos, cMove>>

\* Shape::movement_collision_test(&mover, position, &stationary, ...)
ShapeTest ==
    /\ cpc = "ready"
    /\ cOutcomes' = AllResults(cMover, cPos, cStat, cStatPos, cMove)
    /\ cResult' = ShapeMovementCollisionTest(cMover, cPos, cStat, cStatPos, cMove)
    /\ cpc' = IF cResult'.panicked THEN "shape_panicked" ELSE "shape_returned"
    /\ UNCHANGED <<cMover, cPos, cStat, cStatPos, cMove>>

NextCollide ==
    \/ CollideTest /\ UNCHANGED <<resolveVars, aabbVars, lineVars, facingVars, vertexEdgeVars>>
    \/ ShapeTest /\ UNCHANGED <<resolveVars, aabbVars, lineVars, facingVars, vertexEdgeVars>>

SpecCollide == InitCollide /\ [][NextCollide]_vars

----------------------------------------------------------------------------
(* One call of Aabb::union on drawn boxes *)

AabbRange == 2

AabbBoxes ==
    {Aabb(V(x, y), V(w, h)) : x \in 0..AabbRange, y \in 0..AabbRange,
                              w \in 0..AabbRange, h \in 0..AabbRange}

InitAabb ==
    /\ apc = "ready"
    /\ aA \in AabbBoxes
    /\ aB \in AabbBoxes
    /\ aU = Aabb(VZero, VZero)
    /\ aInter = <<FALSE, FALSE>>
    /\ ResolveOff
    /\ CollideOff
    /\ LineOff
    /\ FacingOff
    /\ VertexEdgeOff

\* Aabb::union(&a, &b)
Union ==
    /\ apc = "ready"
    /\ aU' = AabbUnion(aA, aB)
    /\ apc' = "returned"
    /\ UNCHANGED <<aA, aB, aInter>>

\* a.is_intersecting(&b) and b.is_intersecting(&a)
IsIntersecting ==
    /\ apc = "ready"
    /\ aInter' = <<is_intersecting(aA, aB), is_intersecting(aB, aA)>>
    /\ apc' = "tested"
    /\ UNCHANGED <<aA, aB, aU>>

NextAabb ==
    \/ Union /\ UNCHANGED <<resolveVars, collideVars, lineVars, facingVars, vertexEdgeVars>>
    \/ IsIntersecting /\ UNCHANGED <<resolveVars, collideVars, lineVars, facingVars, vertexEdgeVars>>

SpecAabb == InitAabb /\ [][NextAabb]_vars

----------------------------------------------------------------------------
(* One call of LineSegment::intersection each way on drawn segments *)

LineRange == 2

LinePoints == {V(x, y) : x \in 0..(LineRange + 1), y \in 0..LineRange}

\* an edge a thousand times longer than the grid's unit, in either direction,
\* and one a little longer that starts on the grid's first row
LongSegments ==
    {LineSegment(V(1, 1), V(1, 1001)), LineSegment(V(1, 1001), V(1, 1)),
     LineSegment(V(1, 0), V(1, 2001))}

LineSegments ==
    {LineSegment(a, b) : a \in LinePoints, b \in LinePoints} \cup LongSegments

InitLine ==
    /\ lpc = "ready"
    /\ lSelf \in LineSegments
    /\ lOther \in LineSegments
    /\ lResult = NoIntersection("")
    /\ lReverse = NoIntersection("")
    /\ ResolveOff
    /\ CollideOff
    /\ AabbOff
    /\ FacingOff
    /\ VertexEdgeOff

\* self.intersection(&other) and other.intersection(&self)
Intersect ==
    /\ lpc = "ready"
    /\ lResult' = intersection(lSelf, lOther)
    /\ lReverse' = intersection(lOther, lSelf)
    /\ lpc' = "returned"
    /\ UNCHANGED <<lSelf, lOther>>

NextLine ==
    Intersect /\ UNCHANGED <<resolveVars, collideVars, aabbVars, facingVars, vertexEdgeVars>>

SpecLine == InitLine /\ [][NextLine]_vars

----------------------------------------------------------------------------
(* One call of AxisAlignedRect::for_each_vertex_facing on drawn arguments *)

FacingRange == 2

FacingRects == {AxisAlignedRect(V(w, h)) : w \in 1..FacingRange, h \in 1..FacingRange}

\* a grid of directions, and sub-unit ones of every sign pattern
FacingDirections ==
    {V(x, y) : x \in -FacingRange..FacingRange, y \in -FacingRange..FacingRange}
    \cup {<<Norm(x, 200), Norm(y, 200)>> : x \in -1..1, y \in -1..1}

InitFacing ==
    /\ fpc = "ready"
    /\ fRect \in FacingRects
    /\ fDirection \in FacingDirections
    /\ fVertices = <<>>
    /\ ResolveOff
    /\ CollideOff
    /\ AabbOff
    /\ LineOff
    /\ VertexEdgeOff

\* rect.for_each_vertex_facing(direction, f)
Facing ==
    /\ fpc = "ready"
    /\ fVertices' = for_each_vertex_facing(fRect, fDirection)
    /\ fpc' = "returned"
    /\ UNCHANGED <<fRect, fDirection>>

NextFacing ==
    Facing /\ UNCHANGED <<resolveVars, collideVars, aabbVars, lineVars, vertexEdgeVars>>

SpecFacing == InitFacing /\ [][NextFacing]_vars

----------------------------------------------------------------------------
(* collision.rs: vertex_edge over integers (N = i64 in its test), and one
   call of it on drawn arguments *)

\* vector2_cross_product::<N>
vector2_cross_product_n(v, w) == v[1] * w[2] - v[2] * w[1]

\* Signed::signum and the integer division of Rust, which truncates towards zero
Signum(i) == IF i > 0 THEN 1 ELSE IF i < 0 THEN -1 ELSE 0
TruncDiv(a, b) == Signum(a) * Signum(b) * (Abs(a) \div Abs(b))

VertexEdgeNone == [aborted |-> FALSE, some |-> FALSE, value |-> <<0, 0>>]
VertexEdgeSome(m) == [aborted |-> FALSE, some |-> TRUE, value |-> m]
VertexEdgeAbort == [aborted |-> TRUE, some |-> FALSE, value |-> <<0, 0>>]

vertex_edge(vertex, vertex_movement, edge) ==
    LET edge_vector == <<edge.end[1] - edge.start[1], edge.end[2] - edge.start[2]>>
        cross == vector2_cross_product_n(vertex_movement, edge_vector)
        cross_abs == Abs(cross)
        cross_sign == Signum(cross)
        vertex_to_edge_start == <<edge.start[1] - vertex[1], edge.start[2] - vertex[2]>>
        vertex_multiplier_x_cross ==
            vector2_cross_product_n(vertex_to_edge_start, edge_vector)
        vertex_multiplier_x_cross_abs == vertex_multiplier_x_cross * cross_sign
        edge_multiplier_x_cross ==
            vector2_cross_product_n(vertex_to_edge_start, vertex_movement)
        edge_multiplier_x_cross_abs == edge_multiplier_x_cross * cross_sign
        movement_to_intersection_point_x_cross ==
            <<vertex_movement[1] * vertex_multiplier_x_cross,
              vertex_movement[2] * vertex_multiplier_x_cross>>
        one == 1 * cross_sign
    IN  IF cross = 0 THEN VertexEdgeAbort
        ELSE IF vertex_multiplier_x_cross_abs < 0 THEN VertexEdgeNone
        ELSE IF vertex_multiplier_x_cross_abs > cross_abs THEN VertexEdgeNone
        ELSE IF edge_multiplier_x_cross_abs < 0 THEN VertexEdgeNone
        ELSE IF edge_multiplier_x_cross_abs > cross_abs THEN VertexEdgeNone
        ELSE VertexEdgeSome(
                <<TruncDiv(movement_to_intersection_point_x_cross[1] - one, cross),
                  TruncDiv(movement_to_intersection_point_x_cross[2] - one, cross)>>)

VertexEdgeRange == 3

VertexEdgeCoords == (-VertexEdgeRange)..VertexEdgeRange

\* the vertex at the origin; movements and edge end points on a grid around it
InitVertexEdge ==
    /\ vpc = "ready"
    /\ vVertex = <<0, 0>>
    /\ vMovement \in VertexEdgeCoords \X VertexEdgeCoords
    /\ vEdge \in [start : VertexEdgeCoords \X VertexEdgeCoords,
                   end : VertexEdgeCoords \X VertexEdgeCoords]
    /\ vResult = [some |-> FALSE, value |-> <<0, 0>>]
    /\ ResolveOff
    /\ CollideOff
    /\ AabbOff
    /\ LineOff
    /\ FacingOff

\* vertex_edge(vertex, vertex_movement, edge)
VertexEdge ==
    /\ vpc = "ready"
    /\ LET r == vertex_edge(vVertex, vMovement, vEdge)
       IN  /\ vpc' = IF r.aborted THEN "aborted" ELSE "returned"
           /\ vResult' = [some |-> r.some, value |-> r.value]
    /\ UNCHANGED <<vVertex, vMovement, vEdge>>

NextVertexEdge ==
    VertexEdge /\ UNCHANGED <<resolveVars, collideVars, aabbVars, lineVars, facingVars>>

SpecVertexEdge == InitVertexEdge /\ [][NextVertexEdge]_vars

----------------------------------------------------------------------------
(* Claims about the reset of the GameState, checked under SpecGame *)

\* the scene the claim lists
DemoScene ==
    /\ player_id = SomePlayer(0)
    /\ common_top_left = V(200, 50)
    /\ velocity = [id \in {0} |-> VZero]
    /\ DOMAIN common = 1..6
    /\ \A id \in 1..6 : common[id] = DemoSolids[id]
    /\ entity_id_allocator = 7
    /\ statics = {SpatialInfo(DemoSolids[id].top_left, DemoSolids[id].shape) : id \in 1..6}
    /\ Cardinality(statics) = 6
    /\ \A id \in 1..6 :
        entity_id[SpatialInfo(DemoSolids[id].top_left, DemoSolids[id].shape)] = id

\* C21: whatever updates and resets came before it, a call of init_demo leaves
\* the GameState equal to init_demo of a fresh GameState: player 0 at (200, 50)
\* with velocity (0, 0), the six solids with ids 1..6 at their initial
\* positions and colours, next id 7, and exactly these six in the quad tree.
C21_ResetIsHistoryIndependent ==
    reset_from.some =>
        /\ DemoScene
        /\ GameStateOf = init_demo(GameStateNew)

\* a reset of a scene in which the player had moved and had a velocity, and a
\* solid had been recoloured
C21_Witness ==
    /\ reset_from.some
    /\ DemoScene
    /\ ticks >= 1
    /\ reset_from.gs.player_id.some
    /\ reset_from.gs.velocity[reset_from.gs.player_id.id] # VZero
    /\ reset_from.gs.common[reset_from.gs.player_id.id].top_left # V(200, 50)
    /\ \E id \in DOMAIN reset_from.gs.common : reset_from.gs.common[id].colour = Cyan

----------------------------------------------------------------------------
(* Claims about top_left_after_movement, checked under Spec *)

InCall == pc \in {"loop", "done", "panic"}

AllRectangles ==
    /\ shape.kind = "AxisAlignedRect"
    /\ \A info \in statics : info.shape.kind = "AxisAlignedRect"

\* the mover's box at tl strictly overlaps the box of info
BoxOverlapsAt(tl, info) ==
    LET b == ShapeAabb(info.shape, info.position)
    IN  /\ RLt(tl[1], RAdd(b.top_left_coord[1], b.size[1]))
        /\ RLt(b.top_left_coord[1], RAdd(tl[1], shape.dimensions[1]))
        /\ RLt(tl[2], RAdd(b.top_left_coord[2], b.size[2]))
        /\ RLt(b.top_left_coord[2], RAdd(tl[2], shape.dimensions[2]))

\* c + t * k > 0 as a bound on t: a lower bound when k > 0, an upper bound when
\* k < 0 (-1 and 2 stand for no bound on a t of [0, 1])
LowerBound(c, k) == IF RGt(k, Zero) THEN RDiv(RNeg(c), k) ELSE R(-1)
UpperBound(c, k) == IF RLt(k, Zero) THEN RDiv(RNeg(c), k) ELSE R(2)
ConstantOk(c, k) == k # Zero \/ RGt(c, Zero)
Max4(a, b, c, d) == RMax(RMax(a, b), RMax(c, d))
Min4(a, b, c, d) == RMin(RMin(a, b), RMin(c, d))

\* the mover's box strictly overlaps the box of info somewhere on the straight
\* move from p0 to p1, i.e. at p0 + t * (p1 - p0) for some t of [0, 1]
BoxOverlapsOnMove(p0, p1, info) ==
    LET b == ShapeAabb(info.shape, info.position)
        m == VSub(p1, p0)
        c1 == RSub(RAdd(b.top_left_coord[1], b.size[1]), p0[1])
        c2 == RSub(RAdd(p0[1], shape.dimensions[1]), b.top_left_coord[1])
        c3 == RSub(RAdd(b.top_left_coord[2], b.size[2]), p0[2])
        c4 == RSub(RAdd(p0[2], shape.dimensions[2]), b.top_left_coord[2])
        k1 == RNeg(m[1])
        k2 == m[1]
        k3 == RNeg(m[2])
        k4 == m[2]
        lo == Max4(LowerBound(c1, k1), LowerBound(c2, k2),
                   LowerBound(c3, k3), LowerBound(c4, k4))
        hi == Min4(UpperBound(c1, k1), UpperBound(c2, k2),
                   UpperBound(c3, k3), UpperBound(c4, k4))
    IN  /\ ConstantOk(c1, k1) /\ ConstantOk(c2, k2)
        /\ ConstantOk(c3, k3) /\ ConstantOk(c4, k4)
        /\ RLt(lo, hi) /\ RLt(lo, One) /\ RGt(hi, Zero)

PathIsFree ==
    \A i \in 1..(Len(path) - 1) : \A info \in statics :
        ~BoxOverlapsOnMove(path[i], path[i + 1], info)

\* C1: a rectangle that starts a call overlapping no rectangular obstacle
\* overlaps none anywhere on the path the call moves it along, nor at the
\* position returned.
C1_NoPenetration ==
    (/\ InCall
     /\ AllRectangles
     /\ \A info \in statics : ~BoxOverlapsAt(common_top_left, info))
    => PathIsFree

\* the only obstacle is a rectangle whose top edge is within the vertical sweep
\* of the 32 x 64 mover and which spans it horizontally over the whole move
LandingCase ==
    /\ shape = AxisAlignedRect(V(32, 64))
    /\ RGt(movement0[2], Zero)
    /\ Cardinality(statics) = 1
    /\ \A info \in statics :
        /\ info.shape.kind = "AxisAlignedRect"
        /\ RLe(RAdd(common_top_left[2], R(64)), info.position[2])
        /\ RLe(info.position[2], RAdd(RAdd(common_top_left[2], R(64)), movement0[2]))
        /\ RLe(info.position[1], RAdd(common_top_left[1], RMin(Zero, movement0[1])))
        /\ RLe(RAdd(RAdd(common_top_left[1], R(32)), RMax(Zero, movement0[1])),
               RAdd(info.position[1], info.shape.dimensions[1]))

\* C2: in the landing case the call returns y = platform_y - 64 and
\* x = p.x + h.
C2_Landing ==
    (pc = "done" /\ LandingCase)
    => \A info \in statics :
        top_left = <<RAdd(common_top_left[1], movement0[1]),
                     RSub(info.position[2], R(64))>>

\* C3: when the first sweep of a call finds no collision, the call returns
\* position + movement.
C3_FreeTerminal ==
    (pc = "done" /\ Len(sweeps) >= 1 /\ ~sweeps[1].collided)
    => top_left = VAdd(common_top_left, movement0)

\* a free first sweep with obstacles in the broad phase
C3_Witness ==
    /\ pc = "done"
    /\ Len(sweeps) = 1
    /\ ~sweeps[1].collided
    /\ movement0 # VZero
    /\ top_left = VAdd(common_top_left, movement0)
    /\ QuadTreeIntersections(statics,
           AabbUnion(ShapeAabb(shape, common_top_left), ShapeAabb(shape, top_left))) # {}

\* C4: a call with movement (0, 0) returns the input position (it neither
\* aborts nor moves), whatever the shape and the scene, also from the position
\* an earlier call returned.
C4_ZeroMovementIdentity ==
    (movement0 = VZero /\ pc \in {"done", "panic"})
    => (pc = "done" /\ top_left = common_top_left)

\* a zero movement resolved from (1, 0), a position the 32 x 64 mover only
\* reaches by an earlier call
C4_Witness ==
    /\ pc = "done"
    /\ ticks = 2
    /\ movement0 = VZero
    /\ shape = AxisAlignedRect(V(32, 64))
    /\ common_top_left = V(1, 0)
    /\ top_left = common_top_left

RECURSIVE ClippedAdvances(_, _)
ClippedAdvances(log, k) ==
    IF k = 0 THEN VZero
    ELSE VAdd(ClippedAdvances(log, k - 1), VScale(log[k].movement, log[k].ratio))

Exhausted ==
    /\ pc = "done"
    /\ Len(sweeps) = 16
    /\ \A k \in 1..16 : sweeps[k].collided
    /\ ~stopped

\* C5: a call makes at most 16 sweeps, a call still in its loop has made fewer
\* than 16 and its next sweep has a result, and a call whose 16 sweeps all
\* collided without stopping returns the start position plus the sum of
\* movement_k * ratio_k.
C5_BoundedTermination ==
    /\ Len(sweeps) <= 16
    /\ pc = "loop" => /\ Len(sweeps) < 16
                      /\ iter = Len(sweeps)
                      /\ entity_movement_step(top_left, shape, movement, statics) # {}
    /\ Exhausted => top_left = VAdd(common_top_left, ClippedAdvances(sweeps, 16))

C5_Witness == Exhausted

----------------------------------------------------------------------------
(* Claims about movement_collision_test, checked under SpecCollide *)

CollideReturned == cpc \in {"collide_returned", "shape_returned"}

\* C6 as stated: the ratio of a returned CollisionInfo is within [0, 1].
C6_RatioInUnitInterval ==
    (CollideReturned /\ cResult.info.some)
    => /\ RLe(Zero, cResult.info.movement_vector_ratio)
       /\ RLe(cResult.info.movement_vector_ratio, One)

\* C6 as amended: the ratio of a returned CollisionInfo is within
\* [-EPSILON, 1 + EPSILON], EPSILON being the 0.001 of line_segment.rs.
C6_RatioWithinTolerance ==
    (CollideReturned /\ cResult.info.some)
    => /\ RLe(RNeg(EPSILON), cResult.info.movement_vector_ratio)
       /\ RLe(cResult.info.movement_vector_ratio, RAdd(One, EPSILON))

\* a returned ratio above 1
C6_Witness ==
    /\ CollideReturned
    /\ cResult.info.some
    /\ RGt(cResult.info.movement_vector_ratio, One)

Hits == {k \in 1..Len(cOutcomes) : cOutcomes[k].outcome.kind = "Intersection"}
Slides == {k \in 1..Len(cOutcomes) : cOutcomes[k].outcome.kind = "Slide"}

\* C7: the result is None when no probe-versus-edge outcome is an Intersection,
\* and the ratio and edge of a Some result are those of an Intersection outcome.
C7_SlidesNeverBlock ==
    cpc = "collide_returned"
    => /\ Hits = {} => ~cResult.info.some
       /\ cResult.info.some =>
            \E k \in Hits :
                /\ cOutcomes[k].outcome.t = cResult.info.movement_vector_ratio
                /\ cOutcomes[k].edge = cResult.info.colliding_with

\* slides of both kinds and no Intersection: None
C7_Witness ==
    /\ cpc = "collide_returned"
    /\ Hits = {}
    /\ \E k \in Slides : cOutcomes[k].outcome.tag = "Colinear"
    /\ \E k \in Slides : cOutcomes[k].outcome.tag = "Vertex"
    /\ ~cResult.info.some

MinHits == {k \in Hits : \A j \in Hits : RLe(cOutcomes[k].outcome.t, cOutcomes[j].outcome.t)}
LastMinHit == CHOOSE k \in MinHits : \A j \in MinHits : j <= k

\* C8: when some outcome is an Intersection, the result is Some, its ratio is
\* the least ratio of the Intersection outcomes of both directions and its edge
\* is that of the last enumerated outcome with that ratio.
C8_EarliestContact ==
    (cpc = "collide_returned" /\ Hits # {})
    => /\ cResult.info.some
       /\ cResult.info.movement_vector_ratio = cOutcomes[LastMinHit].outcome.t
       /\ cResult.info.colliding_with = cOutcomes[LastMinHit].edge

\* a tie between outcomes with different edges, won by the last
C8_Witness ==
    /\ cpc = "collide_returned"
    /\ \E i \in MinHits : cOutcomes[i].edge # cOutcomes[LastMinHit].edge
    /\ cResult.info.colliding_with = cOutcomes[LastMinHit].edge

\* C9: Shape::movement_collision_test returns for every pair of shape kinds.
C9_NeverAborts == cpc # "shape_panicked"

----------------------------------------------------------------------------
(* Claims about Aabb, checked under SpecAabb *)

Contains(outer, inner) ==
    /\ RLe(outer.top_left_coord[1], inner.top_left_coord[1])
    /\ RLe(outer.top_left_coord[2], inner.top_left_coord[2])
    /\ RGe(bottom_right_coord(outer)[1], bottom_right_coord(inner)[1])
    /\ RGe(bottom_right_coord(outer)[2], bottom_right_coord(inner)[2])

\* C10: the union contains both boxes, and each of its four bounds is the
\* bound of one of them (so no smaller box contains both).
C10_UnionContainsAndMinimal ==
    apc = "returned"
    => /\ Contains(aU, aA)
       /\ Contains(aU, aB)
       /\ \A i \in 1..2 :
            /\ aU.top_left_coord[i] \in {aA.top_left_coord[i], aB.top_left_coord[i]}
            /\ bottom_right_coord(aU)[i] \in
                   {bottom_right_coord(aA)[i], bottom_right_coord(aB)[i]}

\* a union larger than either box
C10_Witness ==
    /\ apc = "returned"
    /\ aU # aA
    /\ aU # aB
    /\ ~Contains(aA, aB)
    /\ ~Contains(aB, aA)


\* C11: Aabb::is_intersecting gives the same answer with its arguments
\* exchanged, and is false for two boxes where one's right (bottom)
\* coordinate equals the other's left (top) coordinate.
TouchOnly(a, b) ==
    \/ bottom_right_coord(a)[1] = b.top_left_coord[1]
    \/ bottom_right_coord(b)[1] = a.top_left_coord[1]
    \/ bottom_right_coord(a)[2] = b.top_left_coord[2]
    \/ bottom_right_coord(b)[2] = a.top_left_coord[2]

C11_SymmetricAndOpen ==
    apc = "tested" =>
        /\ aInter[1] = aInter[2]
        /\ TouchOnly(aA, aB) => ~aInter[1]

\* boxes of positive size that share an edge segment, tested
C11_Witness ==
    /\ apc = "tested"
    /\ bottom_right_coord(aA)[1] = aB.top_left_coord[1]
    /\ aA.top_left_coord[2] = aB.top_left_coord[2]
    /\ \A k \in 1..2 : RGt(aA.size[k], Zero) /\ RGt(aB.size[k], Zero)
    /\ aInter = <<FALSE, FALSE>>

----------------------------------------------------------------------------
(* Claims about LineSegment::intersection, checked under SpecLine *)

LineReturned == lpc = "returned"
Degenerate(a) == a.start = a.end
DirCross(a, b) == vector2_cross_product(vector(a), vector(b))
NonParallel(a, b) == DirCross(a, b) # Zero
Parallel(a, b) == ~Degenerate(a) /\ ~Degenerate(b) /\ DirCross(a, b) = Zero
\* which side of the line of b the point lies on (its sign), zero when on it
Side(pt, b) == vector2_cross_product(VSub(pt, b.start), vector(b))
OnLineOf(pt, b) == Side(pt, b) = Zero
PointAt(a, k) == VAdd(a.start, VScale(vector(a), k))
\* the fraction of a at which the line of b crosses the line of a
Param(a, b) == RDiv(Side(a.start, b), RNeg(DirCross(a, b)))
\* the end points of each segment lie strictly on opposite sides of the other
ProperCrossing(a, b) ==
    /\ RLt(RMul(Side(a.start, b), Side(a.end, b)), Zero)
    /\ RLt(RMul(Side(b.start, a), Side(b.end, a)), Zero)
\* non-parallel segments have a point in common
SharePoint(a, b) ==
    /\ RLe(RMul(Side(a.start, b), Side(a.end, b)), Zero)
    /\ RLe(RMul(Side(b.start, a), Side(b.end, a)), Zero)
AwayFromEnds(u) == RGe(u, EPSILON) /\ RLe(u, RSub(One, EPSILON))
BeyondTolerance(k) == RLt(k, RNeg(EPSILON)) \/ RGt(k, RAdd(One, EPSILON))

\* C12 (as stated): non-parallel segments that cross at a point interior to
\* both give Intersection(t) with self.start + t * self.vector() the crossing
\* point; non-parallel segments whose lines cross outside either segment
\* give NoIntersection(NonParallelNonIntersecting).
C12_CrossingClassified ==
    (LineReturned /\ NonParallel(lSelf, lOther)) =>
        /\ ProperCrossing(lSelf, lOther) =>
              /\ lResult.kind = "Intersection"
              /\ OnLineOf(PointAt(lSelf, lResult.t), lOther)
        /\ ~SharePoint(lSelf, lOther) =>
              lResult = NoIntersection("NonParallelNonIntersecting")

\* C12 (amended): the same with the tolerance of the code: the crossing point
\* is interior to self and at a fraction u of other with EPSILON <= u <=
\* 1 - EPSILON for Intersection(t); the lines cross at t or u below -EPSILON
\* or above 1 + EPSILON for NoIntersection(NonParallelNonIntersecting).
C12_CrossingClassifiedWithTolerance ==
    (LineReturned /\ NonParallel(lSelf, lOther)) =>
        LET t == Param(lSelf, lOther)
            u == Param(lOther, lSelf)
        IN  /\ (ProperCrossing(lSelf, lOther) /\ AwayFromEnds(u)) =>
                  /\ lResult = Intersection(t)
                  /\ OnLineOf(PointAt(lSelf, lResult.t), lOther)
            /\ (BeyondTolerance(t) \/ BeyondTolerance(u)) =>
                  lResult = NoIntersection("NonParallelNonIntersecting")

\* (0,0)-(1,1) against (1,0)-(0,1) gives 0.5
C12_Witness ==
    /\ LineReturned
    /\ lSelf = LineSegment(V(0, 0), V(1, 1))
    /\ lOther = LineSegment(V(1, 0), V(0, 1))
    /\ lResult = Intersection(<<1, 2>>)

\* C13: parallel segments never give Intersection: on different lines they
\* give NoIntersection(ParallelNonColinear); on one line they give
\* Slide(Colinear) when their extents overlap or touch, in either order and
\* direction, and NoIntersection(ColinearNonOverlapping) when there is a gap.
Lo(a, k) == RMin(a.start[k], a.end[k])
Hi(a, k) == RMax(a.start[k], a.end[k])
ExtentsMeet(a, b) ==
    \A k \in 1..2 : RLe(Lo(a, k), Hi(b, k)) /\ RLe(Lo(b, k), Hi(a, k))

C14_ClassifiedByU ==
    (LineReturned /\ NonParallel(lSelf, lOther)
                  /\ ~BeyondTolerance(Param(lSelf, lOther))) =>
        LET u == Param(lOther, lSelf)
            near == RLt(RAbs(u), EPSILON) \/ RLt(RAbs(RSub(u, One)), EPSILON)
            outside == RLt(u, Zero) \/ RGt(u, One)
        IN  /\ near => lResult = Slide("Vertex")
            /\ (~near /\ outside) =>
                  lResult = NoIntersection("NonParallelNonIntersecting")
            /\ lResult.kind = "Intersection" => ~outside

\* C15 (as stated): when the start (end) point of self lies on the interior
\* of a non-parallel other, self.intersection(other) is Intersection(0)
\* (Intersection(1)) and other.intersection(self) is Slide(Vertex).
StrictlyInside(u) == RGt(u, Zero) /\ RLt(u, One)

C15_EndpointAsymmetry ==
    (LineReturned /\ NonParallel(lSelf, lOther)
                  /\ StrictlyInside(Param(lOther, lSelf))) =>
        /\ OnLineOf(lSelf.start, lOther) =>
              lResult = Intersection(Zero) /\ lReverse = Slide("Vertex")
        /\ OnLineOf(lSelf.end, lOther) =>
              lResult = Intersection(One) /\ lReverse = Slide("Vertex")

\* C15 (amended): the same when the point lies on other at a fraction u with
\* EPSILON <= u <= 1 - EPSILON; nearer to an end point of other both calls
\* give Slide(Vertex).
C15_EndpointAsymmetryAwayFromEnds ==
    (LineReturned /\ NonParallel(lSelf, lOther)
                  /\ (OnLineOf(lSelf.start, lOther) \/ OnLineOf(lSelf.end, lOther))
                  /\ StrictlyInside(Param(lOther, lSelf))) =>
        IF AwayFromEnds(Param(lOther, lSelf))
        THEN /\ lResult = Intersection(IF OnLineOf(lSelf.start, lOther) THEN Zero ELSE One)
             /\ lReverse = Slide("Vertex")
        ELSE lResult = Slide("Vertex") /\ lReverse = Slide("Vertex")

\* self ends in the middle of other
C15_Witness ==
    /\ LineReturned
    /\ NonParallel(lSelf, lOther)
    /\ OnLineOf(lSelf.end, lOther)
    /\ Param(lOther, lSelf) = <<1, 2>>
    /\ lResult = Intersection(One)
    /\ lReverse = Slide("Vertex")

----------------------------------------------------------------------------
(* Claims about for_each_vertex_facing, checked under SpecFacing *)

Corners(rect) ==
    {rect_top_left(rect), rect_top_right(rect),
     rect_bottom_left(rect), rect_bottom_right(rect)}
Emitted == {fVertices[k] : k \in 1..Len(fVertices)}
\* the vertices the sign pattern of the direction calls for
LeadingVertices(rect, d) ==
    IF RGt(d[2], Zero)
    THEN {rect_bottom_left(rect), rect_bottom_right(rect)} \cup
         (IF RGt(d[1], Zero) THEN {rect_top_right(rect)}
          ELSE IF RLt(d[1], Zero) THEN {rect_top_left(rect)} ELSE {})
    ELSE IF RLt(d[2], Zero)
    THEN {rect_top_left(rect), rect_top_right(rect)} \cup
         (IF RGt(d[1], Zero) THEN {rect_bottom_right(rect)}
          ELSE IF RLt(d[1], Zero) THEN {rect_bottom_left(rect)} ELSE {})
    ELSE IF RGt(d[1], Zero) THEN {rect_top_right(rect), rect_bottom_right(rect)}
    ELSE IF RLt(d[1], Zero) THEN {rect_top_left(rect), rect_bottom_left(rect)}
    ELSE {}
\* the corner a vertex is, as signs about the centre (+1 right, +1 bottom)
SignX(rect, v) == IF v[1] = rect.dimensions[1] THEN One ELSE R(-1)
SignY(rect, v) == IF v[2] = rect.dimensions[2] THEN One ELSE R(-1)
\* a vertex leads when the direction has a component towards its side
Leads(rect, v, d) ==
    \/ RGt(RMul(SignX(rect, v), d[1]), Zero)
    \/ RGt(RMul(SignY(rect, v), d[2]), Zero)
OppositeCorner(rect, v, d) ==
    /\ RLt(RMul(SignX(rect, v), d[1]), Zero)
    /\ RLt(RMul(SignY(rect, v), d[2]), Zero)

\* C16: for_each_vertex_facing emits exactly the leading vertices for the
\* sign pattern of the direction, each once: 3, 2 or 0 distinct vertices,
\* and never the corner opposite to the direction.
C16_VertexFacing ==
    fpc = "returned" =>
        /\ Emitted = LeadingVertices(fRect, fDirection)
        /\ Emitted = {v \in Corners(fRect) : Leads(fRect, v, fDirection)}
        /\ Cardinality(Emitted) = Len(fVertices)
        /\ Len(fVertices) \in {0, 2, 3}
        /\ Len(fVertices) = 0 <=> fDirection = VZero
        /\ \A v \in Emitted : ~OppositeCorner(fRect, v, fDirection)

\* moving up and to the left: three vertices, the bottom-right corner left out
C16_Witness ==
    /\ fpc = "returned"
    /\ RLt(fDirection[1], Zero)
    /\ RLt(fDirection[2], Zero)
    /\ Emitted = Corners(fRect) \ {rect_bottom_right(fRect)}
    /\ Len(fVertices) = 3

----------------------------------------------------------------------------
(* Claims about the bidirectional sweep, checked under SpecCollide *)

\* the vertices of the stationary shape and the facing edges of the mover,
\* in world coordinates
StationaryVertices ==
    {VAdd(v, cStatPos) : v \in IF cStat.kind = "LineSegment"
                                THEN {cStat.start, cStat.end} ELSE Corners(cStat)}
MoverFacingEdges ==
    LET es == for_each_edge_facing(cMover, cMove)
    IN  {add_vector(es[k], cPos) : k \in 1..Len(es)}
\* pt = e.start + u * e.vector() + k * cMove: the fraction k of the movement
\* at which the moving edge e reaches pt, and the fraction u of e where
ReachFraction(pt, e) ==
    RDiv(vector2_cross_product(VSub(pt, e.start), vector(e)),
         vector2_cross_product(cMove, vector(e)))
ReachAlongEdge(pt, e) ==
    RDiv(vector2_cross_product(VSub(pt, e.start), cMove),
         vector2_cross_product(vector(e), cMove))
InSweptRegion(pt, e) ==
    /\ vector2_cross_product(cMove, vector(e)) # Zero
    /\ RGe(ReachFraction(pt, e), Zero) /\ RLe(ReachFraction(pt, e), One)
    /\ StrictlyInside(ReachAlongEdge(pt, e))
SweptContacts ==
    {pe \in StationaryVertices \X MoverFacingEdges : InSweptRegion(pe[1], pe[2])}
ForwardHits ==
    LET fw == SingleDirectionResults(cMover, cPos, cStat, cStatPos, cMove, VNeg(cMove))
    IN  {k \in 1..Len(fw) : fw[k].outcome.kind = "Intersection"}
BidirectionalCase ==
    /\ cpc = "collide_returned"
    /\ cMover.kind = "AxisAlignedRect"
    /\ \E pe \in SweptContacts : RGt(ReachFraction(pe[1], pe[2]), Zero)
    /\ ForwardHits = {}

\* some point of the stationary shape lies strictly inside the mover's
\* rectangle before the movement
SegmentCrossesBox(seg, tl, dims) ==
    LET v == vector(seg)
        c1 == RSub(seg.start[1], tl[1])
        c2 == RSub(RAdd(tl[1], dims[1]), seg.start[1])
        c3 == RSub(seg.start[2], tl[2])
        c4 == RSub(RAdd(tl[2], dims[2]), seg.start[2])
        k1 == v[1]
        k2 == RNeg(v[1])
        k3 == v[2]
        k4 == RNeg(v[2])
        lo == Max4(LowerBound(c1, k1), LowerBound(c2, k2),
                   LowerBound(c3, k3), LowerBound(c4, k4))
        hi == Min4(UpperBound(c1, k1), UpperBound(c2, k2),
                   UpperBound(c3, k3), UpperBound(c4, k4))
    IN  /\ ConstantOk(c1, k1) /\ ConstantOk(c2, k2)
        /\ ConstantOk(c3, k3) /\ ConstantOk(c4, k4)
        /\ RLt(lo, hi) /\ RLt(lo, One) /\ RGt(hi, Zero)
OverlapAtStart ==
    IF cStat.kind = "LineSegment"
    THEN SegmentCrossesBox(add_vector(LineSegment(cStat.start, cStat.end), cStatPos),
                           cPos, cMover.dimensions)
    ELSE /\ RLt(cPos[1], RAdd(cStatPos[1], cStat.dimensions[1]))
         /\ RLt(cStatPos[1], RAdd(cPos[1], cMover.dimensions[1]))
         /\ RLt(cPos[2], RAdd(cStatPos[2], cStat.dimensions[2]))
         /\ RLt(cStatPos[2], RAdd(cPos[2], cMover.dimensions[2]))

C17_NarrowObstacle ==
    /\ BidirectionalCase
    /\ ~OverlapAtStart
    /\ \A v \in StationaryVertices :
          RGt(v[1], cPos[1]) /\ RLt(v[1], RAdd(cPos[1], cMover.dimensions[1]))
    /\ cResult.info.some
    /\ cResult.info.movement_vector_ratio = <<1, 2>>

----------------------------------------------------------------------------
(* Claims about GameState::update, checked under Spec *)

\* C18: no step of a tick changes the position or shape of a static solid,
\* the set of entity ids, the id allocator or the contents of the quad tree
\* (only the player's top_left and the solids' colours change).
StaticSceneKept ==
    /\ statics' = statics
    /\ entity_id' = entity_id
    /\ entity_id_allocator' = entity_id_allocator
    /\ DOMAIN common' = DOMAIN common
    /\ \A id \in DOMAIN common :
          /\ common'[id].top_left = common[id].top_left
          /\ common'[id].shape = common[id].shape
    /\ shape' = shape

C18_TicksKeepStaticScene == [][StaticSceneKept]_vars

\* after a tick that recoloured a solid and one that moved the player
C18_Witness ==
    /\ pc = "idle"
    /\ ticks = MaxTicks
    /\ \E id \in DOMAIN common : common[id].colour = Cyan
    /\ common_top_left \notin {sc.start : sc \in Scenarios}
    /\ \A id \in DOMAIN common :
          SpatialInfo(common[id].top_left, common[id].shape) \in statics

----------------------------------------------------------------------------
(* Claims about vertex_edge, checked under SpecVertexEdge *)

\* C19: vertex_edge returns Some or None for every integer input, the ones
\* with vertex_movement parallel to the edge (cross product zero) included.
C19_ParallelDefined == vpc # "aborted"

\* the exact movement to the point where the vertex's path meets the edge's
\* line, and whether the path and the edge have that point in common
EdgeVectorN == <<vEdge.end[1] - vEdge.start[1], vEdge.end[2] - vEdge.start[2]>>
ToEdgeStartN == <<vEdge.start[1] - vVertex[1], vEdge.start[2] - vVertex[2]>>
CrossN == vector2_cross_product_n(vMovement, EdgeVectorN)
PathFraction == Norm(vector2_cross_product_n(ToEdgeStartN, EdgeVectorN), CrossN)
EdgeFraction == Norm(vector2_cross_product_n(ToEdgeStartN, vMovement), CrossN)
Within01(k) == RGe(k, Zero) /\ RLe(k, One)
PathCrossesEdge == CrossN # 0 /\ Within01(PathFraction) /\ Within01(EdgeFraction)
ExactMovement == <<RMul(R(vMovement[1]), PathFraction), RMul(R(vMovement[2]), PathFraction)>>
\* m is the integer of largest magnitude strictly smaller in magnitude than e
\* (e # 0), on e's side of zero
LargestShortOf(m, e) ==
    /\ RLt(R(Abs(m)), RAbs(e))
    /\ RGe(R(Abs(m) + 1), RAbs(e))
    /\ m = 0 \/ (m > 0 <=> RGt(e, Zero))

\* C20: when the cross product is not zero and the vertex's path crosses the
\* edge, vertex_edge returns Some(m) where each component of m is the integer
\* of largest magnitude strictly smaller in magnitude than the exact component
\* of the movement to the crossing point, whatever the signs.
C20_StopsShort ==
    (vpc = "returned" /\ PathCrossesEdge) =>
        /\ vResult.some
        /\ \A k \in 1..2 :
              ExactMovement[k] # Zero => LargestShortOf(vResult.value[k], ExactMovement[k])

----------------------------------------------------------------------------
(* Claims about a probe of zero length, checked under SpecLine *)

\* C22: LineSegment::intersection called on a segment with start = end
\* returns Slide(Colinear) against every other segment.
C22_ZeroLengthProbeSlides ==
    (LineReturned /\ Degenerate(lSelf)) => lResult = Slide("Colinear")

\* a point probe off the line of a long edge, and far from a short one
C22_Witness ==
    /\ LineReturned
    /\ Degenerate(lSelf)
    /\ ~Degenerate(lOther)
    /\ ~OnLineOf(lSelf.start, lOther)
    /\ \A k \in 1..2 : lSelf.start[k] # lOther.start[k] /\ lSelf.start[k] # lOther.end[k]
    /\ lResult = Slide("Colinear")

----------------------------------------------------------------------------
(* Claims about the movement vector of the resolution loop, checked under Spec *)

\* the loop goes on after a sweep that collided: movement is the next movement
Redirected == pc = "loop" /\ Len(sweeps) >= 1
LastSweep == sweeps[Len(sweeps)]
SquaredLength(v) == Dot(v, v)

====
